---- MODULE Spec2Model ----
(***************************************************************************)
(* CondensedMemoryBlock of the "Using Memories in Multi-Turn Agent         *)
(* Conversations" notebook: a list of rendered chat messages that is       *)
(* trimmed from the front until it fits a token budget.                    *)
(*                                                                         *)
(* A Python str is modelled as a sequence of text pieces, a Python value   *)
(* (str, list, dict) as a tagged record, a coroutine as a program counter  *)
(* per task and the asyncio event loop as the task currently running.      *)
(***************************************************************************)
EXTENDS Integers, Sequences, FiniteSets, TLC

\* ------------------------------------------------------------------ bounds
MaxBatch == 2
MaxAppended == 3
MaxLimit == 3
MaxToolCalls == 2

\* two cooperative tasks share the block
Tasks == {"t1", "t2"}
NoTask == "none"
TokenLimits == (0 - 1)..MaxLimit

\* ---------------------------------------------------------- Python values
None == <<"None">>

PyStr(s) == [kind |-> "str", str |-> s, items |-> <<>>]
PyList(xs) == [kind |-> "list", str |-> <<>>, items |-> xs]
PyDict(kvs) == [kind |-> "dict", str |-> <<>>, items |-> kvs]

Range(s) == {s[i] : i \in 1..Len(s)}

RECURSIVE JoinWith(_, _)
JoinWith(sep, ss) ==
    IF ss = <<>> THEN <<>>
    ELSE IF Len(ss) = 1 THEN ss[1]
    ELSE ss[1] \o sep \o JoinWith(sep, Tail(ss))

\* d[key] of a dict whose items are <<key, value>> pairs
DictGet(d, key) ==
    LET i == CHOOSE j \in 1..Len(d.items) : d.items[j][1] = key
    IN  d.items[i][2]

\* repr() of a str: single quotes unless the text has a ' and no "
StrRepr(s) ==
    LET q == IF "'" \in Range(s) /\ "\"" \notin Range(s) THEN "\"" ELSE "'"
        esc(c) == IF c = "\n" THEN "\\n"
                  ELSE IF c = "\\" THEN "\\\\"
                  ELSE IF c = q /\ q = "'" THEN "\\'"
                  ELSE c
    IN  <<q>> \o [i \in 1..Len(s) |-> esc(s[i])] \o <<q>>

\* str() of a str, list or dict value
RECURSIVE Repr(_)
Repr(v) ==
    IF v.kind = "str" THEN StrRepr(v.str)
    ELSE IF v.kind = "list"
    THEN <<"[">> \o JoinWith(<<", ">>, [i \in 1..Len(v.items) |-> Repr(v.items[i])])
                 \o <<"]">>
    ELSE <<"{">> \o JoinWith(<<", ">>,
                     [i \in 1..Len(v.items) |->
                         StrRepr(v.items[i][1]) \o <<": ">> \o Repr(v.items[i][2])])
                 \o <<"}">>

\* ------------------------------------------------------------- tokenizer
\* A byte-pair encoding with the single merge ("a", "b") -> "ab": every
\* other piece of text is a token of its own.
RECURSIVE Encode(_)
Encode(s) ==
    IF s = <<>> THEN <<>>
    ELSE IF Len(s) >= 2 /\ s[1] = "a" /\ s[2] = "b"
    THEN <<"ab">> \o Encode(SubSeq(s, 3, Len(s)))
    ELSE <<s[1]>> \o Encode(Tail(s))

RECURSIVE SumLen(_)
SumLen(mem) ==
    IF mem = <<>> THEN 0 ELSE Len(Encode(Head(mem))) + SumLen(Tail(mem))

\* faulty variant: len(message), characters counted instead of tokens
RECURSIVE MessageLengthChars(_)
MessageLengthChars(mem) ==
    IF mem = <<>> THEN 0 ELSE Len(Head(mem)) + MessageLengthChars(Tail(mem))

\* message_length = sum(len(self.tokenizer.encode(message)) for message in
\* self.current_memory), as computed once the messages are appended
MessageLength(mem) == SumLen(mem)

\* the same sum, as recomputed in the while loop after each removal
MessageLengthAfterDrop(mem) == SumLen(mem)

\* --------------------------------------------------------- chat messages
TextBlock(s) == [type |-> "text", text |-> s]
ImageBlock == [type |-> "image", text |-> <<>>]

ChatMessage(blocks, kwargs) == [blocks |-> blocks, additional_kwargs |-> kwargs]

ToolCall(id, name, arguments) ==
    PyDict(<< <<<<"id">>, PyStr(<<id>>)>>,
              <<<<"type">>, PyStr(<<"function">>)>>,
              <<<<"function">>, PyDict(<< <<<<"name">>, PyStr(<<name>>)>>,
                                         <<<<"arguments">>, PyStr(arguments)>> >>)>> >>)

Messages ==
    { ChatMessage(<<TextBlock(<<"a", "b">>)>>, <<>>),
      ChatMessage(<<TextBlock(<<"a">>), ImageBlock, TextBlock(<<"b">>)>>,
                  << <<<<"tool_call_id">>, PyStr(<<"c">>)>> >>),
      ChatMessage(<<ImageBlock>>, << <<<<"session_id">>, PyStr(<<"s">>)>> >>),
      ChatMessage(<<>>,
                  << <<<<"tool_calls">>,
                       PyList(<<ToolCall("c", "multiply",
                                         <<"{", "\"", "a", "\"", ": ", "3", "}">>)>>)>>,
                     <<<<"session_id">>, PyStr(<<"s">>)>> >>) }

RECURSIVE SeqsUpTo(_, _)
SeqsUpTo(S, n) ==
    IF n = 0 THEN {<<>>}
    ELSE LET shorter == SeqsUpTo(S, n - 1)
         IN  shorter \cup {Append(s, x) : s \in shorter, x \in S}

Batches == SeqsUpTo(Messages, MaxBatch)

\* The messages the rendering is checked on: every choice of blocks with
\* every choice of attributes, the keys in one insertion order.
ToolCallRecords ==
    { ToolCall("c1", "multiply", <<"{", "\"", "x", "\"", ": ", "3", "}">>),
      ToolCall("c2", "divide", <<"{", "}">>) }

RenderBlocks ==
    { <<>>,
      <<ImageBlock>>,
      <<ImageBlock, ImageBlock>>,
      <<TextBlock(<<"a", "b">>)>>,
      <<TextBlock(<<"a">>), ImageBlock, TextBlock(<<"b">>)>> }

RenderKwargs ==
    { id \o calls \o other \o session :
        id \in {<<>>, << <<<<"tool_call_id">>, PyStr(<<"c1">>)>> >>},
        calls \in {<<>>} \cup { << <<<<"tool_calls">>, PyList(l)>> >> :
                                   l \in SeqsUpTo(ToolCallRecords, MaxToolCalls) },
        other \in {<<>>, << <<<<"user">>, PyStr(<<"v">>)>> >>},
        session \in {<<>>, << <<<<"session_id">>, PyStr(<<"s">>)>> >>} }

RenderMessages == {ChatMessage(b, k) : b \in RenderBlocks, k \in RenderKwargs}

\* ------------------------------------------------------ rendering (_aput)
\* the text of each TextBlock of `blocks`, in order
RECURSIVE TextsOf(_)
TextsOf(blocks) ==
    IF blocks = <<>> THEN <<>>
    ELSE IF Head(blocks).type = "text"
    THEN <<Head(blocks).text>> \o TextsOf(Tail(blocks))
    ELSE TextsOf(Tail(blocks))

\* "\n".join(block.text for block in message.blocks if isinstance(block, TextBlock))
TextContents(message) == JoinWith(<<"\n">>, TextsOf(message.blocks))

\* {"name": tool_call["function"]["name"], "args": tool_call["function"]["arguments"]}
ReduceToolCall(tool_call) ==
    PyDict(<< <<<<"name">>, DictGet(DictGet(tool_call, <<"function">>), <<"name">>)>>,
              <<<<"args">>, DictGet(DictGet(tool_call, <<"function">>), <<"arguments">>)>> >>)

\* faulty variant: only session_id is dropped
RECURSIVE FilterKwargsKeepToolCallId(_)
FilterKwargsKeepToolCallId(items) ==
    IF items = <<>> THEN <<>>
    ELSE LET key == Head(items)[1]
             val == Head(items)[2]
         IN  IF key = <<"tool_calls">>
             THEN << <<key, PyList([i \in 1..Len(val.items) |->
                                       ReduceToolCall(val.items[i])])>> >>
                  \o FilterKwargsKeepToolCallId(Tail(items))
             ELSE IF key # <<"session_id">>
             THEN << <<key, val>> >> \o FilterKwargsKeepToolCallId(Tail(items))
             ELSE FilterKwargsKeepToolCallId(Tail(items))

\* faulty variant: a tool_calls key with no record is left out
RECURSIVE FilterKwargsSkipEmptyCalls(_)
FilterKwargsSkipEmptyCalls(items) ==
    IF items = <<>> THEN <<>>
    ELSE LET key == Head(items)[1]
             val == Head(items)[2]
         IN  IF key = <<"tool_calls">>
             THEN (IF val.items = <<>> THEN <<>>
                   ELSE << <<key, PyList([i \in 1..Len(val.items) |->
                                             ReduceToolCall(val.items[i])])>> >>)
                  \o FilterKwargsSkipEmptyCalls(Tail(items))
             ELSE IF key # <<"session_id">> /\ key # <<"tool_call_id">>
             THEN << <<key, val>> >> \o FilterKwargsSkipEmptyCalls(Tail(items))
             ELSE FilterKwargsSkipEmptyCalls(Tail(items))

\* the kwargs dict built from message.additional_kwargs
RECURSIVE FilterKwargs(_)
FilterKwargs(items) ==
    IF items = <<>> THEN <<>>
    ELSE LET key == Head(items)[1]
             val == Head(items)[2]
         IN  IF key = <<"tool_calls">>
             THEN << <<key, PyList([i \in 1..Len(val.items) |->
                                       ReduceToolCall(val.items[i])])>> >>
                  \o FilterKwargs(Tail(items))
             ELSE IF key # <<"session_id">> /\ key # <<"tool_call_id">>
             THEN << <<key, val>> >> \o FilterKwargs(Tail(items))
             ELSE FilterKwargs(Tail(items))

\* faulty variant: the attributes are appended only to a non-empty text
RenderSuffixNeedsText(message) ==
    LET text_contents == TextContents(message)
        kwargs == FilterKwargs(message.additional_kwargs)
    IN  text_contents \o (IF kwargs # <<>> /\ text_contents # <<>>
                          THEN <<"\n", "(">> \o Repr(PyDict(kwargs)) \o <<")">>
                          ELSE <<>>)

\* memory_str of one message
Render(message) ==
    LET text_contents == TextContents(message)
        memory_str == IF text_contents # <<>> THEN text_contents ELSE <<>>
        kwargs == FilterKwargs(message.additional_kwargs)
    IN  memory_str \o (IF kwargs # <<>>
                       THEN <<"\n", "(">> \o Repr(PyDict(kwargs)) \o <<")">>
                       ELSE <<>>)

\* memory_str of every message a put can be given, computed once
MemoryStr == [message \in Messages \cup RenderMessages |-> Render(message)]

\* ------------------------------------------------------------------ state
VARIABLES
    current_memory,   \* self.current_memory: the entries, oldest first
    token_limit,      \* self.token_limit
    pc,               \* per task: "idle", or the line of _aput it is at
    running,          \* the task the event loop is running, NoTask when it is free
    messages,         \* per task: the messages of its put not yet rendered
    message_length,   \* per task: the local message_length of its put
    ret,              \* what the latest call returned ("pending" until it does)
    appended,         \* history: every entry ever appended, in order
    ids,              \* history: the insertion position of each entry kept
    evicted,          \* history: the insertion positions the trim removed
    before,           \* history: current_memory when the latest put began
    batch,            \* history: the messages of the latest put
    removals          \* history: iterations of the while loop in the latest put

vars == <<current_memory, token_limit, pc, running, messages, message_length,
          ret, appended, ids, evicted, before, batch, removals>>

Init ==
    /\ current_memory = <<>>
    /\ token_limit \in TokenLimits
    /\ pc = [t \in Tasks |-> "idle"]
    /\ running = NoTask
    /\ messages = [t \in Tasks |-> <<>>]
    /\ message_length = [t \in Tasks |-> 0]
    /\ ret = [op |-> "none", val |-> None]
    /\ appended = <<>>
    /\ ids = <<>>
    /\ evicted = {}
    /\ before = <<>>
    /\ batch = <<>>
    /\ removals = 0

\* ------------------------------------------------------------- scheduling
\* faulty variant: an await between the append and the trim
SuspendsBeforeTrim(label) == label = "while"

\* Whether a coroutine hands the event loop back when it reaches `label`:
\* neither _aget nor _aput contains an await, so it never does.
Suspends(label) == FALSE

\* the task the event loop runs after task t moved to `label`
Holder(t, label) == IF label = "idle" \/ Suspends(label) THEN NoTask ELSE t

\* task t may take its next step
Scheduled(t) == running \in {NoTask, t}

\* ----------------------------------------------------------------- _aget
\* faulty variant: every entry terminated by a newline
GetTrailingNewline(mem) == JoinWith(<<"\n">>, mem) \o <<"\n">>

\* return "\n".join(self.current_memory)
Get(mem) == JoinWith(<<"\n">>, mem)

AGet(t) ==
    /\ pc[t] = "idle"
    /\ running = NoTask
    /\ ret' = [op |-> "get", val |-> Get(current_memory)]
    /\ UNCHANGED <<current_memory, token_limit, pc, running, messages,
                   message_length, appended, ids, evicted, before, batch,
                   removals>>

\* ----------------------------------------------------------------- _aput
\* faulty variants: [:-1], [2:], and the slice never assigned back
DropNewest(mem) == SubSeq(mem, 1, Len(mem) - 1)
DropTwoOldest(mem) == SubSeq(mem, 3, Len(mem))
DropNotAssigned(mem) == mem

\* self.current_memory[1:]
DropOldest(mem) == SubSeq(mem, 2, Len(mem))

\* faulty variants: off by one either way, and a loop that spares the last entry
OverLimitSlack(length, limit) == length > limit + 1
OverLimitInclusive(length, limit) == length >= limit
OverLimitKeepNewest(length, limit) == length > limit /\ Len(current_memory) > 1

\* message_length > self.token_limit
OverLimit(length, limit) == length > limit

\* faulty variant: the buffer is trimmed as each entry is appended
ListAppendThenTrim(mem, entry) ==
    IF SumLen(Append(mem, entry)) > token_limit
    THEN DropOldest(Append(mem, entry))
    ELSE Append(mem, entry)

\* self.current_memory.append(memory_str)
ListAppend(mem, entry) == Append(mem, entry)

APutCall(t, msgs) ==
    /\ pc[t] = "idle"
    /\ running = NoTask
    /\ Len(appended) + Len(msgs) <= MaxAppended
    /\ pc' = [pc EXCEPT ![t] = "for"]
    /\ running' = Holder(t, "for")
    /\ messages' = [messages EXCEPT ![t] = msgs]
    /\ before' = current_memory
    /\ batch' = msgs
    /\ ret' = [op |-> "pending", val |-> None]
    /\ removals' = 0
    /\ UNCHANGED <<current_memory, token_limit, message_length, appended, ids,
                   evicted>>

\* one iteration of `for message in messages`
APutAppend(t) ==
    /\ pc[t] = "for"
    /\ Scheduled(t)
    /\ messages[t] # <<>>
    /\ current_memory' = ListAppend(current_memory, MemoryStr[Head(messages[t])])
    /\ messages' = [messages EXCEPT ![t] = Tail(@)]
    /\ appended' = Append(appended, MemoryStr[Head(messages[t])])
    /\ ids' = Append(ids, Len(appended) + 1)
    /\ running' = Holder(t, "for")
    /\ UNCHANGED <<token_limit, pc, message_length, ret, evicted, before, batch,
                   removals>>

\* the for loop is exhausted: message_length = sum(...)
APutMeasure(t) ==
    /\ pc[t] = "for"
    /\ Scheduled(t)
    /\ messages[t] = <<>>
    /\ message_length' = [message_length EXCEPT ![t] = MessageLength(current_memory)]
    /\ pc' = [pc EXCEPT ![t] = "while"]
    /\ running' = Holder(t, "while")
    /\ UNCHANGED <<current_memory, token_limit, messages, ret, appended, ids,
                   evicted, before, batch, removals>>

\* one iteration of `while message_length > self.token_limit`
APutTrim(t) ==
    /\ pc[t] = "while"
    /\ Scheduled(t)
    /\ OverLimit(message_length[t], token_limit)
    /\ current_memory' = DropOldest(current_memory)
    /\ message_length' = [message_length EXCEPT
                            ![t] = MessageLengthAfterDrop(DropOldest(current_memory))]
    /\ ids' = DropOldest(ids)
    /\ evicted' = evicted \cup (IF ids = <<>> THEN {} ELSE {Head(ids)})
    /\ running' = Holder(t, "while")
    /\ removals' = IF removals <= MaxAppended THEN removals + 1 ELSE removals
    /\ UNCHANGED <<token_limit, pc, messages, ret, appended, before, batch>>

\* the while condition is false: _aput returns None
APutReturn(t) ==
    /\ pc[t] = "while"
    /\ Scheduled(t)
    /\ ~OverLimit(message_length[t], token_limit)
    /\ pc' = [pc EXCEPT ![t] = "idle"]
    /\ running' = Holder(t, "idle")
    /\ message_length' = [message_length EXCEPT ![t] = 0]
    /\ ret' = [op |-> "put", val |-> None]
    /\ UNCHANGED <<current_memory, token_limit, messages, appended, ids, evicted,
                   before, batch, removals>>

\* _aput as a function of the buffer: the for loop, then the while loop
RECURSIVE AppendAll(_, _)
AppendAll(mem, msgs) ==
    IF msgs = <<>> THEN mem
    ELSE AppendAll(ListAppend(mem, Render(Head(msgs))), Tail(msgs))

RECURSIVE TrimLoop(_, _, _)
TrimLoop(mem, length, limit) ==
    IF OverLimit(length, limit)
    THEN TrimLoop(DropOldest(mem), MessageLengthAfterDrop(DropOldest(mem)), limit)
    ELSE mem

APut(mem, msgs, limit) ==
    TrimLoop(AppendAll(mem, msgs), MessageLength(AppendAll(mem, msgs)), limit)

Next ==
    \E t \in Tasks :
        \/ AGet(t)
        \/ \E msgs \in Batches : APutCall(t, msgs)
        \/ APutAppend(t)
        \/ APutMeasure(t)
        \/ APutTrim(t)
        \/ APutReturn(t)

Spec == Init /\ [][Next]_vars

\* a step of the put of task t
APutStep(t) == APutAppend(t) \/ APutMeasure(t) \/ APutTrim(t) \/ APutReturn(t)

\* The event loop keeps running a coroutine it has started.
SpecFair == Spec /\ \A t \in Tasks : WF_vars(APutStep(t))

\* One put of one message of RenderMessages on a new block, from the entry
\* to _aput to its return, and the gets that follow.
InitRender ==
    /\ current_memory = <<>>
    /\ token_limit \in TokenLimits
    /\ \E m \in RenderMessages :
          /\ messages = [t \in Tasks |-> IF t = "t1" THEN <<m>> ELSE <<>>]
          /\ batch = <<m>>
    /\ pc = [t \in Tasks |-> IF t = "t1" THEN "for" ELSE "idle"]
    /\ running = Holder("t1", "for")
    /\ message_length = [t \in Tasks |-> 0]
    /\ ret = [op |-> "pending", val |-> None]
    /\ appended = <<>>
    /\ ids = <<>>
    /\ evicted = {}
    /\ before = <<>>
    /\ removals = 0

NextRender ==
    \E t \in Tasks :
        \/ AGet(t)
        \/ APutAppend(t)
        \/ APutMeasure(t)
        \/ APutTrim(t)
        \/ APutReturn(t)

SpecRender == InitRender /\ [][NextRender]_vars

\* ----------------------------------------------------------- properties
\* the total token count of a list of entries
TokenCount(entries) == SumLen(entries)

Last(s) == s[Len(s)]
Suffix(s, k) == SubSeq(s, k + 1, Len(s))
Rendered(msgs) == [i \in 1..Len(msgs) |-> Render(msgs[i])]

\* the buffer the latest put started from, followed by its new entries
Full == before \o Rendered(batch)
Idle == \A t \in Tasks : pc[t] = "idle"

\* C1: after a put has returned, the token counts of the entries kept sum to
\* at most token_limit.
C1_Budget == ret.op = "put" => TokenCount(current_memory) <= token_limit

C1_Witness ==
    /\ ret.op = "put"
    /\ evicted # {}
    /\ Len(current_memory) >= 2
    /\ TokenCount(current_memory) = token_limit

\* C2 as stated: when the entry of the last message of a put alone exceeds
\* token_limit, that entry is the one entry left after the put.
C2_NewestKept ==
    (ret.op = "put" /\ batch # <<>>
        /\ TokenCount(<<Render(Last(batch))>>) > token_limit)
    => current_memory = <<Render(Last(batch))>>

\* C2, amended: when the entry of the last message of a put alone exceeds
\* token_limit, the put evicts it with all the others: the buffer is empty
\* after the put and get returns the empty string.
C2_NewestEvicted ==
    (ret.op = "put" /\ batch # <<>>
        /\ TokenCount(<<Render(Last(batch))>>) > token_limit)
    => /\ current_memory = <<>>
       /\ Get(current_memory) = <<>>
       /\ Len(appended) \in evicted

C2_Witness ==
    /\ ret.op = "put"
    /\ Len(batch) = 2
    /\ before # <<>>
    /\ TokenCount(<<Render(Last(batch))>>) > token_limit
    /\ current_memory = <<>>

\* C3: the buffer is a contiguous suffix of everything ever appended, entry
\* for entry, and get returns those entries joined in insertion order.
C3_Fifo ==
    LET k == Len(appended) - Len(current_memory)
    IN  /\ k >= 0
        /\ current_memory = Suffix(appended, k)
        /\ ids = [i \in 1..Len(current_memory) |-> k + i]
        /\ ret.op = "get" => ret.val = JoinWith(<<"\n">>, Suffix(appended, k))

C3_Witness ==
    /\ ret.op = "get"
    /\ evicted # {}
    /\ Len(current_memory) >= 2
    /\ current_memory[1] # current_memory[2]

\* C4: after a put has returned, the buffer is the longest suffix of (the
\* buffer before the put, then the new entries) that fits token_limit: it
\* fits and no longer suffix does.
C4_LongestSuffix ==
    ret.op = "put" =>
        LET k == Len(Full) - Len(current_memory)
        IN  /\ k >= 0
            /\ current_memory = Suffix(Full, k)
            /\ TokenCount(Suffix(Full, k)) <= token_limit
            /\ \A j \in 0..(k - 1) : TokenCount(Suffix(Full, j)) > token_limit

C4_Witness ==
    /\ ret.op = "put"
    /\ before # <<>>
    /\ Len(batch) = 2
    /\ Len(Full) - Len(current_memory) = 2
    /\ current_memory # <<>>

\* C5 as stated: with token_limit <= 0 a put finishes (once the buffer is
\* empty the trim loop has nothing left to ask for), the buffer is empty
\* after it, and a get after it returns the empty string.
C5_NonPositiveLimit ==
    token_limit <= 0 =>
        /\ \A t \in Tasks :
              (pc[t] = "while" /\ current_memory = <<>>)
              => ~OverLimit(message_length[t], token_limit)
        /\ ret.op = "put" => current_memory = <<>>
        /\ ret.op = "get" => ret.val = <<>>

\* C5, the part about token_limit = 0 alone: no put returns with entries
\* left in the buffer (entries of zero tokens refute it).
C5_ZeroLimitKeepsEntries ==
    ~(token_limit = 0 /\ ret.op = "put" /\ current_memory # <<>>)

\* C6: a get changes neither the entries nor token_limit, returns the
\* entries joined by newlines, the empty string for an empty buffer, and
\* the same string as the get before it when no put came between.
C6_GetPure ==
    [][ret'.op = "get" =>
          /\ current_memory' = current_memory
          /\ token_limit' = token_limit
          /\ ret.op = "get" => ret'.val = ret.val
          /\ current_memory = <<>> => ret'.val = <<>>
          /\ Len(current_memory) = 1 => ret'.val = current_memory[1]]_vars

C6_Witness ==
    /\ ret.op = "get"
    /\ Len(current_memory) >= 2
    /\ ret.val # <<>>

\* C7: a put of no messages leaves the entries, and so their token total,
\* as they were, while it runs and after it has returned.
C7_EmptyPut ==
    (batch = <<>> /\ ret.op \in {"pending", "put"})
    => /\ current_memory = before
       /\ TokenCount(current_memory) = TokenCount(before)

C7_Witness ==
    /\ batch = <<>>
    /\ ret.op = "put"
    /\ current_memory # <<>>
    /\ TokenCount(current_memory) = token_limit

\* C8: a put whose new entries fit token_limit together with the buffer
\* evicts nothing, and while everything ever inserted fits, get returns all
\* of it joined by newlines in insertion order.
C8_NoLoss ==
    /\ (ret.op = "put" /\ TokenCount(Full) <= token_limit)
       => current_memory = Full
    /\ (Idle /\ TokenCount(appended) <= token_limit)
       => /\ evicted = {}
          /\ Get(current_memory) = JoinWith(<<"\n">>, appended)
    /\ (ret.op = "get" /\ TokenCount(appended) <= token_limit)
       => ret.val = JoinWith(<<"\n">>, appended)

C8_Witness ==
    /\ ret.op = "get"
    /\ Len(appended) = 3
    /\ TokenCount(appended) <= token_limit
    /\ TokenCount(appended) < MessageLengthChars(appended)

\* C9: calls on one block never interleave: at most one task is inside a
\* call, it is the task the event loop runs, and a get only ever sees the
\* buffer between calls, which is within token_limit.
C9_Atomic ==
    /\ Cardinality({t \in Tasks : pc[t] # "idle"}) <= 1
    /\ \A t \in Tasks : pc[t] # "idle" => running = t
    /\ ret.op = "get" =>
          /\ Idle
          /\ token_limit >= 0 => TokenCount(current_memory) <= token_limit

C9_Witness ==
    /\ pc["t2"] = "while"
    /\ running = "t2"
    /\ token_limit >= 0
    /\ TokenCount(current_memory) > token_limit
    /\ before # <<>>

\* C10: an entry the trim has evicted, named by its insertion position, is
\* in the buffer in no later state, and get returns the entries at the
\* positions still kept and no others.
C10_EvictedStayOut ==
    /\ evicted \cap Range(ids) = {}
    /\ ret.op = "get" =>
          ret.val = JoinWith(<<"\n">>, [i \in 1..Len(ids) |-> appended[ids[i]]])

C10_Witness ==
    /\ ret.op = "put"
    /\ Cardinality(evicted) >= 2
    /\ current_memory # <<>>
    /\ before = <<>>

RECURSIVE Flat(_)
Flat(ss) == IF ss = <<>> THEN <<>> ELSE Head(ss) \o Flat(Tail(ss))

\* the pieces of `entry` that are among `words`, in order
RECURSIVE Pick(_, _)
Pick(entry, words) ==
    IF entry = <<>> THEN <<>>
    ELSE IF Head(entry) \in words THEN <<Head(entry)>> \o Pick(Tail(entry), words)
    ELSE Pick(Tail(entry), words)

Dropped == {<<"session_id">>, <<"tool_call_id">>}
Keys(items) == [j \in 1..Len(items) |-> items[j][1]]
Has(items, key) == \E j \in 1..Len(items) : items[j][1] = key
ValueOf(items, key) == items[CHOOSE j \in 1..Len(items) : items[j][1] = key][2]

\* the attributes of message i of the latest put, and their filtered mapping
Attrs(i) == batch[i].additional_kwargs
Filtered(i) == FilterKwargs(Attrs(i))

\* the names of the tool calls of message i, in order
ToolNames(i) ==
    IF Has(Attrs(i), <<"tool_calls">>)
    THEN LET calls == ValueOf(Attrs(i), <<"tool_calls">>).items
         IN  Flat([k \in 1..Len(calls) |->
                      DictGet(DictGet(calls[k], <<"function">>), <<"name">>).str])
    ELSE <<>>

\* C11: the filtered mapping of a message has neither session_id nor
\* tool_call_id; it has every other key of the message, in the message's
\* order; under tool_calls each record is reduced, in order, to its name and
\* its arguments; every other value is the message's own. The entry shows
\* none of the dropped keys and none of the dropped fields of a tool call.
C11_AttributeFilter ==
    \A i \in 1..Len(appended) :
        /\ \A j \in 1..Len(Filtered(i)) : Filtered(i)[j][1] \notin Dropped
        /\ Keys(Filtered(i))
              = Pick(Keys(Attrs(i)), Range(Keys(Attrs(i))) \ Dropped)
        /\ \A j \in 1..Len(Filtered(i)) :
              LET key == Filtered(i)[j][1]
                  new == Filtered(i)[j][2]
                  old == ValueOf(Attrs(i), key)
              IN  IF key = <<"tool_calls">>
                  THEN /\ new.kind = "list"
                       /\ Len(new.items) = Len(old.items)
                       /\ \A k \in 1..Len(old.items) :
                             /\ Keys(new.items[k].items) = << <<"name">>, <<"args">> >>
                             /\ new.items[k].items[1][2]
                                   = DictGet(DictGet(old.items[k], <<"function">>),
                                             <<"name">>)
                             /\ new.items[k].items[2][2]
                                   = DictGet(DictGet(old.items[k], <<"function">>),
                                             <<"arguments">>)
                  ELSE new = old
        /\ Range(appended[i])
              \cap {"session_id", "tool_call_id", "id", "type", "function",
                    "arguments", "c1", "c2", "s"} = {}
        /\ Pick(appended[i], {"multiply", "divide"}) = ToolNames(i)

C11_Witness ==
    /\ Len(appended) = 1
    /\ Len(Attrs(1)) = 4
    /\ Len(ValueOf(Attrs(1), <<"tool_calls">>).items) = 2
    /\ Keys(Filtered(1)) = << <<"tool_calls">>, <<"user">> >>
    /\ ret.op = "put"

\* message i of the latest put has no text block
NoText(i) == \A j \in 1..Len(batch[i].blocks) : batch[i].blocks[j].type # "text"

\* message i has a key that the filter keeps
Retains(i) == \E j \in 1..Len(Attrs(i)) : Attrs(i)[j][1] \notin Dropped

\* every message of the put of task t has been rendered
Rendered1(t) == pc[t] # "idle" /\ messages[t] = <<>>

\* C12: a message with no text block still yields exactly one entry; the
\* entry has no text: it is empty when the filter keeps no attribute, and
\* otherwise it is a newline and the mapping in parentheses, nothing else.
C12_NoTextEntry ==
    \A t \in Tasks :
        (Rendered1(t) /\ \A i \in 1..Len(batch) : NoText(i)) =>
            /\ Len(appended) = Len(batch)
            /\ Len(before) = 0 => Len(current_memory) <= Len(batch)
            /\ \A i \in 1..Len(batch) :
                  LET entry == appended[i]
                  IN  /\ Range(entry) \cap {"a", "b", "ab"} = {}
                      /\ ~Retains(i) => entry = <<>>
                      /\ Retains(i) =>
                            /\ Len(entry) >= 5
                            /\ SubSeq(entry, 1, 3) = <<"\n", "(", "{">>
                            /\ SubSeq(entry, Len(entry) - 1, Len(entry)) = <<"}", ")">>
                            /\ SubSeq(entry, 3, Len(entry) - 1)
                                  = Repr(PyDict(Filtered(i)))
                            /\ Pick(entry, {"\n"}) = <<"\n">>

C12_Witness ==
    /\ Rendered1("t1")
    /\ Len(batch[1].blocks) = 2
    /\ NoText(1)
    /\ Keys(Attrs(1)) = << <<"tool_calls">>, <<"session_id">> >>
    /\ Len(appended) = 1
    /\ Len(appended[1]) > 3

\* the text of message i: its text blocks joined by newlines
TextOf(i) == JoinWith(<<"\n">>, TextsOf(batch[i].blocks))

NoCalls == << <<<<"tool_calls">>, PyList(<<>>)>> >>

\* C13: an entry has the attribute suffix exactly when the message has a
\* key other than session_id and tool_call_id: without one the entry is the
\* joined text, with one it is the text, a newline and the mapping in
\* parentheses, also when the key is tool_calls with no record in it.
C13_SuffixIffRetained ==
    \A i \in 1..Len(appended) :
        LET entry == appended[i]
        IN  /\ ("(" \in Range(entry)) <=> Retains(i)
            /\ ~Retains(i) => entry = TextOf(i)
            /\ Retains(i) =>
                  entry = TextOf(i) \o <<"\n", "(">> \o Repr(PyDict(Filtered(i)))
                                    \o <<")">>
            /\ Attrs(i) = NoCalls =>
                  entry = TextOf(i) \o <<"\n", "(", "{", "'", "tool_calls", "'", ": ",
                                        "[", "]", "}", ")">>

C13_Witness ==
    /\ Len(appended) = 1
    /\ Attrs(1) = NoCalls
    /\ TextOf(1) = <<"a", "\n", "b">>
    /\ ret.op = "get"

\* C13, the other side: only dropped keys, and the entry is the text alone.
C13_WitnessDropped ==
    /\ Len(appended) = 1
    /\ Len(Attrs(1)) = 2
    /\ ~Retains(1)
    /\ appended[1] = <<"a", "b">>

\* the entries of the first n messages of the latest put
RenderedUpTo(n) == Rendered(SubSeq(batch, 1, n))

\* C14: a put appends one entry per message, in message order, at the end
\* of the buffer (the empty string for a message with no text and no kept
\* attribute), and evicts nothing until every message has its entry.
C14_OnePerMessage ==
    \A t \in Tasks :
        /\ pc[t] = "for" =>
              LET n == Len(batch) - Len(messages[t])
              IN  /\ n >= 0
                  /\ messages[t] = SubSeq(batch, n + 1, Len(batch))
                  /\ current_memory = before \o RenderedUpTo(n)
                  /\ Len(appended) >= n
                  /\ Suffix(appended, Len(appended) - n) = RenderedUpTo(n)
        /\ (pc[t] = "while" \/ ret.op = "put") =>
              /\ Len(appended) >= Len(batch)
              /\ Suffix(appended, Len(appended) - Len(batch)) = RenderedUpTo(Len(batch))
              /\ Len(current_memory) <= Len(before) + Len(batch)
              /\ \A i \in 1..Len(batch) :
                    (NoText(i) /\ ~Retains(i))
                    => appended[Len(appended) - Len(batch) + i] = <<>>

C14_Witness ==
    /\ pc["t1"] = "for"
    /\ Len(batch) = 2
    /\ Len(messages["t1"]) = 1
    /\ before # <<>>
    /\ token_limit >= 0
    /\ TokenCount(current_memory) > token_limit
    /\ Len(current_memory) = Len(before) + 1

\* C15: with token_limit >= 0, putting the messages of a put in two calls,
\* split at any place, leaves the buffer the one call left; and the buffer
\* is what one put of everything ever inserted leaves on a new block.
C15_BatchSplit ==
    (ret.op = "put" /\ token_limit >= 0) =>
        /\ \A n \in 0..Len(batch) :
              APut(APut(before, SubSeq(batch, 1, n), token_limit),
                   SubSeq(batch, n + 1, Len(batch)), token_limit) = current_memory
        /\ TrimLoop(appended, TokenCount(appended), token_limit) = current_memory

C15_Witness ==
    /\ ret.op = "put"
    /\ token_limit >= 0
    /\ Len(batch) = 2
    /\ before # <<>>
    /\ Len(APut(before, SubSeq(batch, 1, 1), token_limit)) < Len(before) + 1
    /\ current_memory # <<>>
    /\ Len(current_memory) < Len(APut(before, SubSeq(batch, 1, 1), token_limit)) + 1

\* C16: with token_limit >= 0 every put returns, and its while loop runs at
\* most once per entry the buffer held when the messages had been appended.
C16_Terminates ==
    /\ [](token_limit >= 0 => removals <= Len(before) + Len(batch))
    /\ \A t \in Tasks : (pc[t] # "idle" /\ token_limit >= 0) ~> (pc[t] = "idle")

C16_Witness ==
    /\ ret.op = "put"
    /\ token_limit >= 0
    /\ Len(batch) = 2
    /\ before # <<>>
    /\ removals = Len(before) + Len(batch)

====
